---- MODULE Spec2Model ----
(***************************************************************************)
(* Model of tinyargs (src/src/tinyargs.c, src/include/tinyargs.h): an      *)
(* ordered registry of option declarations (arg_t) held by arg_parser_t,   *)
(* the linear-scan arg_parser_parse, the three lookups and print_help.     *)
(*                                                                         *)
(* C arrays are 0-based; parser->args is modelled as a TLA+ sequence, so   *)
(* entry j of the model is parser->args[j-1].  argv is modelled as a       *)
(* function on 0..argc-1, exactly as indexed by the C code.  A C string is *)
(* a TLA+ string, strcmp(a,b)==0 is a = b, and the null pointer is NULL.   *)
(* A printed line is the tuple of the texts printf is given.               *)
(*                                                                         *)
(* Every API call is one action.  Spec is the machine of all calls;        *)
(* SpecParse is the machine of the calls that write the registry           *)
(* (arg_parser_add, arg_parser_parse), which the lookups and print_help    *)
(* only read.                                                              *)
(***************************************************************************)
EXTENDS Integers, Sequences, FiniteSets, TLC

\* ---------------------------------------------------------------- bounds
MaxEntries == 2     \* arg_parser_add calls per registry
MaxTokens  == 2     \* tokens after argv[0], summed over the arg_parser_parse
                    \* calls on one registry

\* ------------------------------------------------------------ input sets
NULL == "NULL"                       \* the null pointer
ARG_TYPE_FLAG  == "ARG_TYPE_FLAG"
ARG_TYPE_VALUE == "ARG_TYPE_VALUE"
ArgTypes   == {ARG_TYPE_FLAG, ARG_TYPE_VALUE}
ShortNames == {NULL, "-n"}           \* short_name arguments of arg_parser_add
LongNames  == {NULL, "--name"}       \* long_name arguments of arg_parser_add
Tokens     == {"-n", "--name", "x"}  \* argv[1..] elements, lookup names
Prog       == "prog"                 \* argv[0]
Desc       == "desc"                 \* description argument

VARIABLES
    args,       \* parser->args : sequence of arg_t
    count,      \* parser->count
    call,       \* name of the last API function called
    argc,       \* argc of the last arg_parser_parse call (0 otherwise)
    argv,       \* argv of the last arg_parser_parse call
    name,       \* name argument of the last lookup (NULL otherwise)
    ret,        \* int returned by the last call if arg_parser_parse (else NoRet)
    retStr,     \* const char* returned by the last call if arg_parser_get_value
    retBool,    \* bool returned by the last call if arg_parser_is_flag_set / _has
    stdout,     \* lines printed by the last call
    visited,    \* values of i with which the body of the outer loop ran
    used        \* number of tokens passed to arg_parser_parse so far

vars == <<args, count, call, argc, argv, name, ret, retStr, retBool, stdout, visited, used>>

\* ------------------------------------------------------------ arg_parser_add
\* the entry written by arg_parser_add
NewArg(short_name, long_name, type, required, description) ==
    [short_name  |-> short_name,
     long_name   |-> long_name,
     type        |-> type,
     required    |-> required,
     set         |-> FALSE,
     value       |-> NULL,
     description |-> description]

\* ------------------------------------------------------------ name matching
\* (arg->short_name && strcmp(s, arg->short_name) == 0) ||
\* (arg->long_name  && strcmp(s, arg->long_name)  == 0)
Matches(arg, s) ==
    \/ (arg.short_name # NULL /\ s = arg.short_name)
    \/ (arg.long_name  # NULL /\ s = arg.long_name)

\* variant of FindArg: the inner loop runs on without the break, so the
\* highest matching index is the one acted on
FindArgLast(a, s) ==
    IF \E j \in 1..Len(a) : Matches(a[j], s)
    THEN CHOOSE j \in 1..Len(a) :
            /\ Matches(a[j], s)
            /\ \A k \in (j+1)..Len(a) : ~Matches(a[k], s)
    ELSE 0

\* the inner for-loop with its break / return: the lowest index whose entry
\* matches s, 0 when the loop runs to the end
FindArg(a, s) ==
    IF \E j \in 1..Len(a) : Matches(a[j], s)
    THEN CHOOSE j \in 1..Len(a) :
            /\ Matches(a[j], s)
            /\ \A k \in 1..(j-1) : ~Matches(a[k], s)
    ELSE 0

\* ------------------------------------------------------------ printf lines
ErrMissingValue(tok)    == <<"Error: Missing value for argument", tok>>
ErrUnrecognized(tok)    == <<"Error: Unrecognized argument", tok>>
ErrMissingRequired(nm)  == <<"Error: Missing required argument", nm>>

\* ------------------------------------------------------------ arg_parser_parse
RECURSIVE ParseLoop(_, _, _, _, _)

\* result of a return inside / after the loops
Return(a, r, out, vis) == [args |-> a, ret |-> r, stdout |-> out, visited |-> vis]

\* variant of Unrecognized: the token is reported but the scan goes on
UnrecognizedSkip(a, ac, av, i, vis) ==
    ParseLoop(a, ac, av, i + 1, vis)

\* if (!recognized) { printf(...); return 0; }
Unrecognized(a, ac, av, i, vis) ==
    Return(a, 0, <<ErrUnrecognized(av[i])>>, vis)

\* variant of TakeValue: argv[i + 1] is read without advancing i
TakeValueNoSkip(a, j, ac, av, i, vis) ==
    ParseLoop([a EXCEPT ![j].value = av[i + 1]], ac, av, i + 1, vis)

\* arg->value = argv[++i];  followed by the i++ of the outer loop
TakeValue(a, j, ac, av, i, vis) ==
    ParseLoop([a EXCEPT ![j].value = av[i + 1]], ac, av, i + 2, vis)

\* variant of NoValue: the missing value is never an error
NoValueNeverFails(a, j, ac, av, i, vis) ==
    ParseLoop(a, ac, av, i + 1, vis)

\* variant of NoValue: the missing value is an error whatever required is
NoValueAlwaysFails(a, j, ac, av, i, vis) ==
    Return(a, 0, <<ErrMissingValue(av[i])>>, vis)

\* no following token: else if (arg->required) { printf(...); return 0; }
\* otherwise fall through to break and the next iteration
NoValue(a, j, ac, av, i, vis) ==
    IF a[j].required
    THEN Return(a, 0, <<ErrMissingValue(av[i])>>, vis)
    ELSE ParseLoop(a, ac, av, i + 1, vis)

\* variant of Matched: the type test is missing, every entry takes a value
MatchedAnyType(a, j, ac, av, i, vis) ==
    LET a1 == [a EXCEPT ![j].set = TRUE] IN
    IF i + 1 < ac
    THEN TakeValue(a1, j, ac, av, i, vis)
    ELSE NoValue(a1, j, ac, av, i, vis)

\* variant of Matched: set is assigned in the value branch only
MatchedSetsValueOnly(a, j, ac, av, i, vis) ==
    LET a1 == [a EXCEPT ![j].set = TRUE] IN
    IF a[j].type = ARG_TYPE_VALUE
    THEN IF i + 1 < ac
         THEN TakeValue(a1, j, ac, av, i, vis)
         ELSE NoValue(a1, j, ac, av, i, vis)
    ELSE ParseLoop(a, ac, av, i + 1, vis)

\* body of the if at line 38 for the matching entry j
Matched(a, j, ac, av, i, vis) ==
    LET a1 == [a EXCEPT ![j].set = TRUE] IN
    IF a1[j].type = ARG_TYPE_VALUE
    THEN IF i + 1 < ac
         THEN TakeValue(a1, j, ac, av, i, vis)
         ELSE NoValue(a1, j, ac, av, i, vis)
    ELSE ParseLoop(a1, ac, av, i + 1, vis)

\* the second for-loop: first entry with required && !set, 0 if none
FirstMissing(a) ==
    IF \E j \in 1..Len(a) : a[j].required /\ ~a[j].set
    THEN CHOOSE j \in 1..Len(a) :
            /\ a[j].required /\ ~a[j].set
            /\ \A k \in 1..(j-1) : ~(a[k].required /\ ~a[k].set)
    ELSE 0

\* variant of RequiredCheck: the second loop is missing
RequiredCheckNone(a, vis) == Return(a, 1, <<>>, vis)

\* lines 61-68; the line printed is built from long_name, a null pointer when
\* the entry was declared without one
RequiredCheck(a, vis) ==
    LET j == FirstMissing(a) IN
    IF j # 0
    THEN Return(a, 0, <<ErrMissingRequired(a[j].long_name)>>, vis)
    ELSE Return(a, 1, <<>>, vis)

\* the outer for-loop from index i on, then the required check
ParseLoop(a, ac, av, i, vis) ==
    IF i < ac
    THEN LET j    == FindArg(a, av[i])
             vis1 == Append(vis, i)
         IN  IF j = 0
             THEN Unrecognized(a, ac, av, i, vis1)
             ELSE Matched(a, j, ac, av, i, vis1)
    ELSE RequiredCheck(a, vis)

arg_parser_parse(a, ac, av) == ParseLoop(a, ac, av, 1, <<>>)

\* ------------------------------------------------------------ lookups
arg_parser_get_value(a, s) ==
    LET j == FindArg(a, s) IN
    IF j # 0 THEN a[j].value ELSE NULL

arg_parser_is_flag_set(a, s) ==
    LET j == FindArg(a, s) IN
    IF j # 0 THEN a[j].set ELSE FALSE

\* arg_type_t has exactly the two enumerators, so the first matching entry
\* always returns
arg_parser_has(a, s) ==
    LET j == FindArg(a, s) IN
    IF j = 0 THEN FALSE
    ELSE IF a[j].type = ARG_TYPE_FLAG THEN a[j].set
         ELSE a[j].value # NULL

\* ------------------------------------------------------------ print_help
TypeStr(arg) == IF arg.type = ARG_TYPE_FLAG THEN "Flag" ELSE "Key=Value"

\* the lines printed for one entry (none when both names are null)
HelpLines(arg) ==
    IF arg.short_name # NULL /\ arg.long_name # NULL
    THEN << <<arg.short_name, arg.long_name, arg.description, TypeStr(arg)>> >>
    ELSE IF arg.short_name # NULL
    THEN << <<arg.short_name, arg.description, TypeStr(arg)>> >>
    ELSE IF arg.long_name # NULL
    THEN << <<arg.long_name, arg.description, TypeStr(arg)>> >>
    ELSE << >>

RECURSIVE HelpFrom(_, _)
HelpFrom(a, i) ==
    IF i > Len(a) THEN << >> ELSE HelpLines(a[i]) \o HelpFrom(a, i + 1)

arg_parser_print_help(a) == << <<"Usage:">> >> \o HelpFrom(a, 1)

\* ------------------------------------------------------------ state machine
NoArgv == [k \in {0} |-> Prog]
NoRet  == -1     \* ret when the last call did not return an int

\* arg_parser_create
Init ==
    /\ args = << >>
    /\ count = 0
    /\ call = "arg_parser_create"
    /\ argc = 0
    /\ argv = NoArgv
    /\ name = NULL
    /\ ret = NoRet /\ retStr = NULL /\ retBool = FALSE
    /\ stdout = << >>
    /\ visited = << >>
    /\ used = 0

Add ==
    /\ count < MaxEntries
    /\ \E sn \in ShortNames, ln \in LongNames, t \in ArgTypes, r \in BOOLEAN :
          args' = Append(args, NewArg(sn, ln, t, r, Desc))
    /\ count' = count + 1
    /\ call' = "arg_parser_add"
    /\ argc' = 0 /\ argv' = NoArgv /\ name' = NULL
    /\ ret' = NoRet /\ retStr' = NULL /\ retBool' = FALSE
    /\ stdout' = << >> /\ visited' = << >>
    /\ UNCHANGED used

Parse ==
    /\ \E n \in 0..(MaxTokens - used) : \E toks \in [1..n -> Tokens] :
          LET av == [k \in 0..n |-> IF k = 0 THEN Prog ELSE toks[k]]
              r  == arg_parser_parse(args, n + 1, av)
          IN  /\ argc' = n + 1
              /\ argv' = av
              /\ args' = r.args
              /\ ret' = r.ret
              /\ stdout' = r.stdout
              /\ visited' = r.visited
              /\ used' = used + n
    /\ call' = "arg_parser_parse"
    /\ name' = NULL /\ retStr' = NULL /\ retBool' = FALSE
    /\ UNCHANGED count

Lookup(fn, s, str, b) ==
    /\ call' = fn
    /\ name' = s
    /\ retStr' = str
    /\ retBool' = b
    /\ ret' = NoRet
    /\ argc' = 0 /\ argv' = NoArgv /\ stdout' = << >> /\ visited' = << >>
    /\ UNCHANGED <<args, count, used>>

GetValue  == \E s \in Tokens : Lookup("arg_parser_get_value", s, arg_parser_get_value(args, s), FALSE)

IsFlagSet == \E s \in Tokens : Lookup("arg_parser_is_flag_set", s, NULL, arg_parser_is_flag_set(args, s))

Has       == \E s \in Tokens : Lookup("arg_parser_has", s, NULL, arg_parser_has(args, s))

PrintHelp ==
    /\ call' = "arg_parser_print_help"
    /\ stdout' = arg_parser_print_help(args)
    /\ argc' = 0 /\ argv' = NoArgv /\ name' = NULL /\ visited' = << >>
    /\ ret' = NoRet /\ retStr' = NULL /\ retBool' = FALSE
    /\ UNCHANGED <<args, count, used>>

\* every API call
Next == Add \/ Parse \/ GetValue \/ IsFlagSet \/ Has \/ PrintHelp

Spec == Init /\ [][Next]_vars

\* the calls that write the registry; the lookups and print_help only read it
NextParse == Add \/ Parse

SpecParse == Init /\ [][NextParse]_vars

\* ------------------------------------------------------------ sanity
TypeOK ==
    /\ count = Len(args)
    /\ count \in 0..MaxEntries
    /\ used \in 0..MaxTokens
    /\ \A j \in 1..Len(args) :
          /\ args[j].short_name \in ShortNames
          /\ args[j].long_name \in LongNames
          /\ args[j].type \in ArgTypes
          /\ args[j].set \in BOOLEAN
          /\ args[j].value \in Tokens \cup {NULL}

\* ------------------------------------------------------------ vocabulary of the properties
\* entry e is declared with the (non-null) text s as short_name or long_name
Carries(e, s) == e.short_name = s \/ e.long_name = s

\* j is the lowest index of a whose entry carries s
IsLowest(a, s, j) ==
    /\ j \in 1..Len(a)
    /\ Carries(a[j], s)
    /\ \A k \in 1..(j - 1) : ~Carries(a[k], s)

\* no entry of a carries s
Unknown(a, s) == \A j \in 1..Len(a) : ~Carries(a[j], s)

\* the step is a call of arg_parser_parse
ParseCall == call' = "arg_parser_parse"

\* the state is the one a call of arg_parser_parse returned in
Parsed == call = "arg_parser_parse"

\* positions q <= upto of vis at which the scan gave entry j a value
ValuePositions(a, ac, av, vis, j, upto) ==
    {q \in 1..upto : /\ IsLowest(a, av[vis[q]], j)
                     /\ a[j].type = ARG_TYPE_VALUE
                     /\ vis[q] + 1 < ac}

\* the value entry j holds after the first upto scanned tokens, old before them
ValueAfter(a, ac, av, vis, j, upto, old) ==
    LET S == ValuePositions(a, ac, av, vis, j, upto) IN
    IF S = {} THEN old
    ELSE LET q == CHOOSE m \in S : \A n \in S : n <= m IN av[vis[q] + 1]

\* C1: when the scan is at a token whose matching entry is Value-kind and a
\* following token exists, the entry is set, its value is that following
\* token (until a later occurrence replaces it), the scan goes on two
\* positions further and the following token is never scanned itself; with
\* the single entry (-n/--name, Value, required) and ["--name", X] the parse
\* succeeds and get_value("-n") is X.
C1_ValueTakesNextToken ==
    Parsed =>
      /\ \A p \in 1..Len(visited) : \A j \in 1..Len(args) :
            LET i == visited[p] IN
            (IsLowest(args, argv[i], j) /\ args[j].type = ARG_TYPE_VALUE /\ i + 1 < argc)
            => /\ args[j].set
               /\ args[j].value = ValueAfter(args, argc, argv, visited, j, Len(visited), NULL)
               /\ (ValuePositions(args, argc, argv, visited, j, Len(visited)) = {p}
                      => args[j].value = argv[i + 1])
               /\ \A q \in 1..Len(visited) : visited[q] # i + 1
               /\ IF p < Len(visited) THEN visited[p + 1] = i + 2 ELSE i + 2 >= argc
      /\ ( /\ Len(args) = 1
           /\ args[1].short_name = "-n" /\ args[1].long_name = "--name"
           /\ args[1].type = ARG_TYPE_VALUE /\ args[1].required
           /\ argc = 3 /\ argv[1] = "--name" )
         => /\ ret = 1
            /\ arg_parser_get_value(args, "-n") = argv[2]

\* C1 witness: ["--name", "--name"] against (-n/--name, Value, required): the
\* second token, although an option name, became the value
C1_Witness ==
    /\ Parsed /\ Len(args) = 1
    /\ args[1].short_name = "-n" /\ args[1].long_name = "--name"
    /\ args[1].type = ARG_TYPE_VALUE /\ args[1].required
    /\ argc = 3 /\ argv[1] = "--name" /\ argv[2] = "--name"
    /\ visited = <<1>>
    /\ ret = 1
    /\ args[1].set /\ args[1].value = "--name"

\* position p of vis is one at which entry j was the matching entry
ScannedFor(a, av, vis, j, p) == IsLowest(a, av[vis[p]], j)

FirstParseOfDeclaredNames ==
    /\ Parsed /\ used = argc - 1
    /\ \A i \in 1..(argc - 1) : ~Unknown(args, argv[i])

\* C3 as claimed: a required entry none of whose names is in the argument
\* list makes the call fail with the missing-required line of the first
\* required, unset entry.  Stated for the lists most favourable to the
\* claim: first parse, every token a declared name.
C3_Claimed ==
    (FirstParseOfDeclaredNames /\ \E j \in 1..Len(args) :
                  /\ args[j].required
                  /\ \A i \in 1..(argc - 1) : ~Carries(args[j], argv[i]))
    => /\ ret = 0
       /\ \E j \in 1..Len(args) :
             /\ args[j].required /\ ~args[j].set
             /\ \A k \in 1..(j - 1) : ~(args[k].required /\ ~args[k].set)
             /\ stdout = <<ErrMissingRequired(args[j].long_name)>>

\* the last scanned token is one no entry carries
StoppedUnrecognized(a, av, vis) ==
    Len(vis) > 0 /\ Unknown(a, av[vis[Len(vis)]])

\* the last scanned token is the last of the list and the name of a required
\* Value-kind entry
StoppedMissingValue(a, ac, av, vis) ==
    /\ Len(vis) > 0
    /\ vis[Len(vis)] + 1 >= ac
    /\ \E j \in 1..Len(a) :
          /\ IsLowest(a, av[vis[Len(vis)]], j)
          /\ a[j].type = ARG_TYPE_VALUE /\ a[j].required

\* C3: a required entry that is unset when arg_parser_parse is called and
\* none of whose names is in the argument list makes the call return 0 with
\* one line printed: the unrecognized-argument or missing-value line if the
\* scan stopped at such a token, and otherwise the missing-required line, for
\* the first entry in registry order that is required and unset after the
\* scan.
C3_MissingRequired ==
    [][ (ParseCall /\ \E j \in 1..Len(args) :
                         /\ args[j].required /\ ~args[j].set
                         /\ \A i \in 1..(argc' - 1) : ~Carries(args[j], argv'[i]))
        => /\ ret' = 0
           /\ IF StoppedUnrecognized(args, argv', visited')
              THEN stdout' = <<ErrUnrecognized(argv'[visited'[Len(visited')]])>>
              ELSE IF StoppedMissingValue(args, argc', argv', visited')
              THEN stdout' = <<ErrMissingValue(argv'[visited'[Len(visited')]])>>
              ELSE \E j \in 1..Len(args') :
                     /\ args'[j].required /\ ~args'[j].set
                     /\ \A k \in 1..(j - 1) : ~(args'[k].required /\ ~args'[k].set)
                     /\ stdout' = <<ErrMissingRequired(args'[j].long_name)>>
      ]_vars

\* C3 witness: the only token was recognized and set the first entry, the
\* second entry is required, not named in the list, and reported
C3_Witness ==
    /\ Parsed /\ argc = 2 /\ visited = <<1>> /\ Len(args) = 2
    /\ IsLowest(args, argv[1], 1) /\ args[1].set
    /\ args[2].required /\ ~args[2].set /\ ~Carries(args[2], argv[1])
    /\ ret = 0
    /\ stdout = <<ErrMissingRequired(args[2].long_name)>>

\* C4 as claimed: whenever the last token is a name of a required Value-kind
\* entry the call returns 0 with the missing-value line for that token.
\* Stated for the lists most favourable to the claim: first parse, every
\* token a declared name.
C4_Claimed ==
    (FirstParseOfDeclaredNames /\ argc >= 2 /\ \E j \in 1..Len(args) :
                               /\ args[j].type = ARG_TYPE_VALUE /\ args[j].required
                               /\ Carries(args[j], argv[argc - 1]))
    => /\ ret = 0
       /\ stdout = <<ErrMissingValue(argv[argc - 1])>>

\* C4: when the scan reaches the last token of the list and the entry it
\* matches is Value-kind and required, the call returns 0 there, printing only
\* the missing-value line for that token (no missing-required line).
C4_MissingValue ==
    Parsed =>
      \A p \in 1..Len(visited) : \A j \in 1..Len(args) :
          ( /\ visited[p] = argc - 1
            /\ IsLowest(args, argv[argc - 1], j)
            /\ args[j].type = ARG_TYPE_VALUE /\ args[j].required )
          => /\ ret = 0
             /\ stdout = <<ErrMissingValue(argv[argc - 1])>>
             /\ p = Len(visited)

\* C4 witness: the required Value-kind entry 1 was named by the last token
\* while the required entry 2 is unset, and only the missing value is reported
C4_Witness ==
    /\ Parsed /\ argc = 2 /\ visited = <<1>> /\ Len(args) = 2
    /\ IsLowest(args, argv[1], 1)
    /\ args[1].type = ARG_TYPE_VALUE /\ args[1].required /\ args[1].set
    /\ args[2].required /\ ~args[2].set
    /\ ret = 0
    /\ stdout = <<ErrMissingValue(argv[1])>>

\* C5 as claimed: after a parse a Flag-kind entry is set exactly if one of
\* its names is a token of the argument list.
C5_Claimed ==
    Parsed =>
      \A j \in 1..Len(args) :
          args[j].type = ARG_TYPE_FLAG =>
            (args[j].set <=> \E i \in 1..(argc - 1) : Carries(args[j], argv[i]))

\* C5: after a parse a Flag-kind entry is set exactly if it was set before
\* the call or the scan reached a token (not one consumed as a value, not one
\* after the token the parse stopped at) whose lowest-index matching entry
\* is that entry.
C5_FlagSetIffScanned ==
    [][ ParseCall =>
        \A j \in 1..Len(args') :
            args'[j].type = ARG_TYPE_FLAG =>
              ( args'[j].set <=>
                  \/ args[j].set
                  \/ \E p \in 1..Len(visited') : ScannedFor(args, argv', visited', j, p) )
      ]_vars

\* C5 witness: entry 1 is Value-kind and took the name of the Flag-kind
\* entry 2 as its value, so the flag's token is in the list and the flag is
\* unset
C5_Witness ==
    /\ Parsed /\ argc = 3 /\ visited = <<1>> /\ Len(args) = 2
    /\ args[1].type = ARG_TYPE_VALUE /\ IsLowest(args, argv[1], 1)
    /\ args[2].type = ARG_TYPE_FLAG /\ IsLowest(args, argv[2], 2)
    /\ args[1].value = argv[2]
    /\ ~args[2].set

\* C5 witness of the other direction: a flag the scan reached is set
C5_WitnessSet ==
    /\ Parsed /\ argc = 3 /\ visited = <<1, 2>> /\ Len(args) = 2
    /\ args[2].type = ARG_TYPE_FLAG /\ IsLowest(args, argv[2], 2)
    /\ args[2].set

\* C6: an entry with a value is Value-kind and set.
C6_ValueOnlyIfValueKindAndSet ==
    \A j \in 1..Len(args) :
        args[j].value # NULL => (args[j].type = ARG_TYPE_VALUE /\ args[j].set)

\* C6 witness: after a failed parse one entry holds a value next to an entry
\* that is not set
C6_Witness ==
    /\ Parsed /\ ret = 0 /\ Len(args) = 2
    /\ \E j \in 1..Len(args) : args[j].value # NULL
    /\ \E j \in 1..Len(args) : ~args[j].set /\ args[j].value = NULL

\* what the lowest-index entry carrying name s gives for each lookup
FirstValue(a, s) ==
    IF Unknown(a, s) THEN NULL
    ELSE LET j == CHOOSE k \in 1..Len(a) : IsLowest(a, s, k) IN a[j].value

FirstSet(a, s) ==
    IF Unknown(a, s) THEN FALSE
    ELSE LET j == CHOOSE k \in 1..Len(a) : IsLowest(a, s, k) IN a[j].set

FirstHas(a, s) ==
    IF Unknown(a, s) THEN FALSE
    ELSE LET j == CHOOSE k \in 1..Len(a) : IsLowest(a, s, k) IN
         IF a[j].type = ARG_TYPE_FLAG THEN a[j].set ELSE a[j].value # NULL

\* C7: in every registry state a call leaves, each lookup of each name
\* returns what the lowest-index entry carrying the name gives, and a parse
\* changes set or value of an entry only if the scan reached a token whose
\* lowest-index matching entry is that entry.
C7_FirstRegisteredWins ==
    [][ /\ \A s \in Tokens :
              /\ arg_parser_get_value(args', s)   = FirstValue(args', s)
              /\ arg_parser_is_flag_set(args', s) = FirstSet(args', s)
              /\ arg_parser_has(args', s)         = FirstHas(args', s)
        /\ ParseCall =>
             \A j \in 1..Len(args) :
                 (args'[j].set # args[j].set \/ args'[j].value # args[j].value)
                 => \E p \in 1..Len(visited') : ScannedFor(args, argv', visited', j, p)
      ]_vars

\* C7 witness: both entries carry the name s; the first, a Flag, is unset
\* and the second holds a value (given under its other name), and the
\* lookups of s answer for the first entry
C7_Witness ==
    /\ Parsed /\ Len(args) = 2
    /\ \E s \in Tokens :
          /\ Carries(args[1], s) /\ Carries(args[2], s)
          /\ args[1].type = ARG_TYPE_FLAG /\ ~args[1].set
          /\ args[2].type = ARG_TYPE_VALUE /\ args[2].set /\ args[2].value # NULL
          /\ arg_parser_get_value(args, s) = NULL
          /\ arg_parser_is_flag_set(args, s) = FALSE
          /\ arg_parser_has(args, s) = FALSE

\* C7 witness of the parse: the token both entries carry set the first only
C7_WitnessParse ==
    /\ Parsed /\ used = 1 /\ Len(args) = 2 /\ argc = 2
    /\ Carries(args[1], argv[1]) /\ Carries(args[2], argv[1])
    /\ args[1].set /\ ~args[2].set

C9_Claimed ==
    call = "arg_parser_print_help" =>
      /\ Len(stdout) = 1 + Len(args)
      /\ \A j \in 1..Len(args) :
            /\ stdout[j + 1][Len(stdout[j + 1])] = TypeStr(args[j])
            /\ stdout[j + 1][1] \in {args[j].short_name, args[j].long_name}

\* C10 as claimed: when a parse returns 1 every required entry is set, and
\* every required Value-kind entry has a value.
C10_Claimed ==
    (Parsed /\ ret = 1) =>
      \A j \in 1..Len(args) :
          args[j].required =>
            /\ args[j].set
            /\ (args[j].type = ARG_TYPE_VALUE => args[j].value # NULL)

====
